---- MODULE Spec2Model ----
(***************************************************************************)
(* The auction bidding engine of auctions/views.py: place_bid,             *)
(* mark_winners and contact_winners as request handlers running            *)
(* concurrently against one database.  Every database statement of a       *)
(* handler (a read, a create, a save) is one atomic step; the code holds   *)
(* no lock and opens no transaction, so steps of different requests        *)
(* interleave freely.                                                      *)
(*                                                                         *)
(* Money is counted in half dollars (so $0.50 is 1 and $1.00 is 2), time   *)
(* in seconds.                                                             *)
(***************************************************************************)
EXTENDS Integers, Sequences, FiniteSets

\* ---------------------------------------------------------------- bounds
MaxTime == 3
\* the item's start_date and end_date
StartDate == 1
EndDate == 2
\* the item's starting_price (= its current_price before any bid)
StartPrice == 2
\* the largest bid amount a request carries
MaxAmount == 6
\* place_bid requests started in one run of Spec
MaxRequests == 2

\* LoginAttempt rows written at most
MaxLogins == 7

\* ------------------------------------------------------ program constants
\* Lines 52-53
MAX_LOGIN_ATTEMPTS == 5
LOGIN_ATTEMPT_PERIOD == 15 * 60
\* Lines 113 and 132: the timeouts of cache.set in the two rate checks
LoginCacheTimeout == 60
BidCacheTimeout == 30
\* Lines 273-281: the failed logins of the last 24 hours that make the
\* captcha required
CaptchaThreshold == 3
CaptchaPeriod == 24 * 60 * 60
MAX_BID_ATTEMPTS == 10
BID_ATTEMPT_PERIOD == 60
\* "at least $1 higher than current price", in half dollars
MinIncrement == 2

\* ------------------------------------------------------------ the world
\* the bidders; each has at most one place_bid request in flight
Users == {"alice", "bob"}
Items == {"knife"}
NoUser == "none"
NoTime == -1
\* User.outbid_notifications_enabled / User.win_notifications_enabled
OutbidEnabled == {"alice"}
WinEnabled == {"alice"}

\* request.data.get("amount"): absent, not a number, the string "NaN", or a
\* decimal number (val, in half dollars)
Num(n) == [kind |-> "num", val |-> n]
Missing == [kind |-> "missing", val |-> 0]
Malformed == [kind |-> "malformed", val |-> 0]
NotANumber == [kind |-> "nan", val |-> 0]
NumAmounts == {Num(n) : n \in {-1} \cup (StartPrice..MaxAmount)}
Amounts == NumAmounts \cup {Missing, Malformed, NotANumber}
ItemIdLists == {<<>>} \cup {<<i>> : i \in Items}

\* the logins: one account, one client address
Emails == {"alice@example.org"}
IpAddresses == {"10.0.0.1"}
\* what a login request carries: a form the serializer refuses, or the
\* credentials of an account that does not exist, that is not verified,
\* with the wrong password, with the right password
Credentials == {"invalid_form", "no_user", "unverified", "bad_password", "good_password"}

\* send_verification_email: timedelta(hours=24), the life of a token.  The
\* account is registered at time 0 and register_user sends the first mail.
TokenLifetime == 24 * 60 * 60
\* resend_verification: timedelta(hours=23)
ResendWindow == 23 * 60 * 60

\* the keys of check_login_rate_limit and check_bid_rate_limit
LoginCacheKey(email, ip) == <<"login_attempts", email, ip>>
BidCacheKey(u, ip) == <<"bid_attempts", u, ip>>
CacheKeys ==
    {LoginCacheKey(e, ip) : e \in Emails, ip \in IpAddresses}
    \cup {BidCacheKey(u, ip) : u \in Users, ip \in IpAddresses}
\* a key that was never set
NoEntry == [value |-> 0, expires |-> 0]
\* cache.get returning None
None == -1

VARIABLES
    now,          \* timezone.now()
    items,        \* the Item table: id -> row
    bids,         \* the Bid table, in creation order (a row's id is its index)
    bid_attempts,  \* the BidAttempt table, in creation order
    messages,     \* the Message table: receivers of the in-app messages
    outbox,       \* mails handed to send_mail, with the transport's outcome
    proc,         \* the place_bid request of each user that is in flight
    response,     \* the response place_bid returned last
    admin,        \* the mark_winners / contact_winners request being served
    started,      \* place_bid requests received so far, per user
    login_attempts,  \* the LoginAttempt table, in creation order
    cache,        \* the cache of the rate-limit counters: key -> entry
    verification_token_expires  \* User.verification_token_expires, per email

vars == <<now, items, bids, bid_attempts, messages, outbox, proc, response, admin,
          started, login_attempts, cache, verification_token_expires>>

NoItem ==
    [is_active |-> FALSE, start_date |-> 0, end_date |-> 0, starting_price |-> 0,
     current_price |-> 0, winner |-> NoUser, winner_notified |-> FALSE,
     winner_contacted |-> NoTime]

IdleProc == [pc |-> "idle", raw |-> Missing, item |-> "knife", snap |-> NoItem, bid |-> 0]

NoResponse ==
    [user |-> NoUser, item |-> "knife", result |-> "none", price |-> 0, bid |-> 0]

IdleAdmin ==
    [pc |-> "idle", op |-> "none", ids |-> <<>>, k |-> 0, user |-> NoUser,
     snap |-> NoItem, contacted |-> 0, result |-> "none"]

Init ==
    /\ now = 0
    /\ \E a \in BOOLEAN :
          items = [i \in Items |->
                     [is_active |-> a, start_date |-> StartDate,
                      end_date |-> EndDate, starting_price |-> StartPrice,
                      current_price |-> StartPrice, winner |-> NoUser,
                      winner_notified |-> FALSE, winner_contacted |-> NoTime]]
    /\ bids = <<>>
    /\ bid_attempts = <<>>
    /\ messages = <<>>
    /\ outbox = <<>>
    /\ proc = [u \in Users |-> IdleProc]
    /\ response = NoResponse
    /\ admin = IdleAdmin
    /\ started = [u \in Users |-> 0]
    /\ login_attempts = <<>>
    /\ cache = [k \in CacheKeys |-> NoEntry]
    /\ verification_token_expires = [e \in Emails |-> TokenLifetime]

\* ------------------------------------------------------------- the clock
\* the instants of the login scenarios: the start, the expiry of a counter
\* cached at the start, the last second at which a login of the start is
\* inside the window, and the expiry of a counter cached at that second
Instants == {0, LoginCacheTimeout, LOGIN_ATTEMPT_PERIOD,
             LOGIN_ATTEMPT_PERIOD + LoginCacheTimeout}

\* time passes until instant t
Wait(t) ==
    /\ now < t
    /\ now' = t
    /\ UNCHANGED <<items, bids, bid_attempts, messages, outbox, proc, response, admin,
                   started, login_attempts, cache, verification_token_expires>>

Tick ==
    /\ now < MaxTime
    /\ now' = now + 1
    /\ UNCHANGED <<items, bids, bid_attempts, messages, outbox, proc, response, admin,
                   started, login_attempts, cache, verification_token_expires>>

\* ------------------------------------------------------------- place_bid
\* `if not amount` (line 697): None, "" and the number 0 are all falsy
AmountMissing(raw) == raw.kind = "missing"

\* Decimal(str(amount)) raises InvalidOperation on text that is no decimal
\* literal ("abc"); it accepts "NaN", zero and negative numbers
AmountUnparsable(raw) == raw.kind = "malformed"

\* item.end_date < timezone.now()
\* (the same without the test: no auction ever counts as ended)
AuctionEndedNever(it, t) == FALSE
AuctionEnded(it, t) == it.end_date < t

\* amount <= item.current_price; an ordering comparison with a Decimal NaN
\* raises InvalidOperation, which place_bid's `except Exception` catches
ComparisonRaises(raw) == raw.kind = "nan"
TooLow(raw, it) == raw.val <= it.current_price

\* amount < item.current_price + 1
\* (the same with <= : a bid of exactly the increment is refused)
BelowIncrementExclusive(raw, it) == raw.val <= it.current_price + MinIncrement
BelowIncrement(raw, it) == raw.val < it.current_price + MinIncrement

\* (the checks of place_bid without the two comparisons with the price)
ValidateNoPriceChecks(it, raw, t) ==
    IF it = NoItem THEN "Raise"
    ELSE IF ~it.is_active THEN "NotActive"
    ELSE IF AuctionEnded(it, t) THEN "Ended"
    ELSE IF AmountMissing(raw) THEN "Required"
    ELSE IF AmountUnparsable(raw) THEN "InvalidAmount"
    ELSE IF ComparisonRaises(raw) THEN "Raise"
    ELSE "Accept"

\* The checks of place_bid, in the order of the code; "Accept" when the
\* request goes on to create the Bid, "Raise" when it jumps to the handler.
\* self.get_object() (line 679) is inside the try: the Http404 it raises
\* for a row that is gone is caught by `except Exception` like any other.
Validate(it, raw, t) ==
    IF it = NoItem THEN "Raise"
    ELSE IF ~it.is_active THEN "NotActive"
    ELSE IF AuctionEnded(it, t) THEN "Ended"
    ELSE IF AmountMissing(raw) THEN "Required"
    ELSE IF AmountUnparsable(raw) THEN "InvalidAmount"
    ELSE IF ComparisonRaises(raw) THEN "Raise"
    ELSE IF TooLow(raw, it) THEN "TooLow"
    ELSE IF BelowIncrement(raw, it) THEN "BelowIncrement"
    ELSE "Accept"

\* Lines 679-724: item = self.get_object(), then every check; a rejection
\* returns its 400 response at once, without writing anything.  The handler
\* starts with get_object(): check_bid_rate_limit (lines 118-134) is called
\* neither here nor anywhere else in the file.
place_bid_validate(u, i, raw) ==
    /\ proc[u].pc = "idle"
    /\ LET it == items[i]
           v == Validate(it, raw, now)
       IN IF v \in {"Accept", "Raise"}
            THEN /\ proc' = [proc EXCEPT ![u] =
                               [pc |-> IF v = "Accept" THEN "create" ELSE "except",
                                raw |-> raw, item |-> i, snap |-> it, bid |-> 0]]
                 /\ UNCHANGED response
            ELSE /\ response' = [NoResponse EXCEPT !.user = u, !.item = i, !.result = v]
                 /\ UNCHANGED proc
    /\ started' = [started EXCEPT ![u] = @ + 1]
    /\ UNCHANGED <<now, items, bids, bid_attempts, messages, outbox, admin,
                   login_attempts, cache, verification_token_expires>>

\* A statement that writes the database either takes effect (dbOk) or raises
\* (the connection is lost, the row is rejected) and writes nothing; the
\* exception is caught by place_bid's `except Exception`.  Nothing is rolled
\* back: there is no transaction around the handler.

\* objects.create inserts one new row
\* (the same as an upsert that overwrites the newest row)
CreatedOverLast(table, row) ==
    IF table = <<>> THEN <<row>> ELSE [table EXCEPT ![Len(table)] = row]
Created(table, row) == Append(table, row)

\* Lines 727-731: Bid.objects.create(user, item, amount); the insert is
\* refused (IntegrityError) when the Item row it refers to is gone
place_bid_create(u, dbOk) ==
    /\ proc[u].pc = "create"
    /\ IF dbOk /\ items[proc[u].item] # NoItem
         THEN /\ bids' = Created(bids, [item |-> proc[u].item, user |-> u,
                                        amount |-> proc[u].raw.val])
              /\ proc' = [proc EXCEPT ![u].pc = "save", ![u].bid = Len(bids) + 1]
         ELSE /\ proc' = [proc EXCEPT ![u].pc = "except"]
              /\ UNCHANGED bids
    /\ UNCHANGED <<now, items, bid_attempts, messages, outbox, response, admin, started, login_attempts, cache, verification_token_expires>>

\* item.save() writes every column of the row from the request's in-memory
\* Item, the object read at the start of the request
SavedRow(row, mem) == mem

\* The request's Item object once line 734 has run: the row as it was read
\* (snap), with current_price set to the amount
InMemoryItem(u) == [proc[u].snap EXCEPT !.current_price = proc[u].raw.val]

\* Lines 737-742: the statement after item.save() records the successful
\* BidAttempt; the notification (lines 744-753) comes after that
\* (the same with the notification right after item.save())
StatementAfterSaveNotify == "notify"
StatementAfterSave == "attempt"

\* Lines 734-735: item.current_price = amount; item.save()
place_bid_save(u, dbOk) ==
    /\ proc[u].pc = "save"
    /\ IF dbOk
         THEN /\ items' = [items EXCEPT ![proc[u].item] = SavedRow(@, InMemoryItem(u))]
              /\ proc' = [proc EXCEPT ![u].pc = StatementAfterSave]
         ELSE /\ proc' = [proc EXCEPT ![u].pc = "except"]
              /\ UNCHANGED items
    /\ UNCHANGED <<now, bids, bid_attempts, messages, outbox, response, admin, started, login_attempts, cache, verification_token_expires>>

\* Lines 738-742: BidAttempt.objects.create(user, ip_address, success=True)
place_bid_attempt(u, dbOk) ==
    /\ proc[u].pc = "attempt"
    /\ IF dbOk
         THEN /\ bid_attempts' = Append(bid_attempts, [user |-> u, success |-> TRUE,
                                                       timestamp |-> now])
              /\ proc' = [proc EXCEPT ![u].pc = "notify"]
         ELSE /\ proc' = [proc EXCEPT ![u].pc = "except"]
              /\ UNCHANGED bid_attempts
    /\ UNCHANGED <<now, items, bids, messages, outbox, response, admin, started, login_attempts, cache, verification_token_expires>>

\* Bid.objects.filter(item=item).exclude(id=bid.id).order_by("-amount"): the
\* ids of the item's other bids of the largest amount (.first() takes one)
PreviousHighest(i, b) ==
    LET others == {k \in 1..Len(bids) : k # b /\ bids[k].item = i}
    IN {k \in others : \A j \in others : bids[j].amount <= bids[k].amount}

\* send_outbid_notification, lines 1265-1278: send_mail inside try/except;
\* "sent" and "failed" are its return values True and False
\* (the same without the try/except: the exception of send_mail escapes)
send_outbid_notification_unguarded(mailOk) == IF mailOk THEN "sent" ELSE "raised"
send_outbid_notification(mailOk) == IF mailOk THEN "sent" ELSE "failed"

\* Lines 745-762: the outbid notification and the 201 response.  .first()
\* takes one of the rows of the largest amount; which one, among rows of
\* equal amount, the database decides.
place_bid_notify(u, mailOk) ==
    /\ proc[u].pc = "notify"
    /\ LET me == proc[u]
           prev == PreviousHighest(me.item, me.bid)
           created == [user |-> u, item |-> me.item, result |-> "Accepted",
                       price |-> InMemoryItem(u).current_price, bid |-> me.bid]
       IN \/ /\ prev = {}
             /\ proc' = [proc EXCEPT ![u] = IdleProc]
             /\ response' = created
             /\ UNCHANGED outbox
          \/ \E k \in prev :
                IF bids[k].user # u /\ bids[k].user \in OutbidEnabled
                  THEN /\ outbox' = Append(outbox,
                                      [kind |-> "outbid", to |-> bids[k].user,
                                       item |-> me.item,
                                       previous_bid |-> bids[k].amount,
                                       new_bid |-> me.raw.val, ok |-> mailOk])
                       /\ IF send_outbid_notification(mailOk) = "raised"
                            THEN /\ proc' = [proc EXCEPT ![u].pc = "except"]
                                 /\ UNCHANGED response
                            ELSE /\ proc' = [proc EXCEPT ![u] = IdleProc]
                                 /\ response' = created
                  ELSE /\ proc' = [proc EXCEPT ![u] = IdleProc]
                       /\ response' = created
                       /\ UNCHANGED outbox
    /\ UNCHANGED <<now, items, bids, bid_attempts, messages, admin, started, login_attempts, cache, verification_token_expires>>

\* Lines 763-774: the `except Exception` handler records a failed attempt
\* and answers 400 with str(e); when this write raises too, the framework
\* answers 500.  response.bid keeps the id of the Bid the request had created.
place_bid_except(u, dbOk) ==
    /\ proc[u].pc = "except"
    /\ bid_attempts' = IF dbOk
                         THEN Append(bid_attempts, [user |-> u, success |-> FALSE,
                                                    timestamp |-> now])
                         ELSE bid_attempts
    /\ proc' = [proc EXCEPT ![u] = IdleProc]
    /\ response' = [NoResponse EXCEPT !.user = u, !.item = proc[u].item,
                                      !.result = IF dbOk THEN "Error" ELSE "ServerError",
                                      !.bid = proc[u].bid]
    /\ UNCHANGED <<now, items, bids, messages, outbox, admin, started, login_attempts, cache, verification_token_expires>>

\* ---------------------------------------------------------- mark_winners
\* item.end_date > timezone.now(): "Cannot assign winner to active auction"
\* (the same with the comparison reversed)
AuctionStillRunningReversed(it, t) == it.end_date < t
AuctionStillRunning(it, t) == it.end_date > t

\* Lines 1298-1308: item_ids[0] and the user are read, the end date checked
mark_winners_check(i, u) ==
    /\ admin.pc = "idle"
    /\ admin' = IF items[i] = NoItem
                  THEN [IdleAdmin EXCEPT !.op = "mark", !.result = "NotFound"]
                  ELSE IF AuctionStillRunning(items[i], now)
                  THEN [IdleAdmin EXCEPT !.op = "mark", !.result = "ActiveAuction"]
                  ELSE [IdleAdmin EXCEPT !.pc = "msave", !.op = "mark", !.ids = <<i>>,
                                         !.user = u, !.snap = items[i],
                                         !.result = "pending"]
    /\ UNCHANGED <<now, items, bids, bid_attempts, messages, outbox, proc, response, started, login_attempts, cache, verification_token_expires>>

\* Lines 1315-1316: item.winner = user; item.save()
mark_winners_save ==
    /\ admin.pc = "msave"
    /\ LET mem == [admin.snap EXCEPT !.winner = admin.user]
       IN /\ items' = [items EXCEPT ![admin.ids[1]] = SavedRow(@, mem)]
          /\ admin' = [IdleAdmin EXCEPT !.op = "mark", !.result = "Assigned"]
    /\ UNCHANGED <<now, bids, bid_attempts, messages, outbox, proc, response, started, login_attempts, cache, verification_token_expires>>

\* ------------------------------------------------------- contact_winners
\* item.winner and not item.winner_notified
\* (the same without the winner_notified test)
ContactEligibleAgain(it) == it.winner # NoUser
ContactEligible(it) == it.winner # NoUser /\ ~it.winner_notified

\* Lines 1144-1150: an empty item_ids is answered 400 "No items selected"
contact_winners_start(ids) ==
    /\ admin.pc = "idle"
    /\ admin' = IF ids = <<>>
                  THEN [IdleAdmin EXCEPT !.op = "contact", !.result = "NoItems"]
                  ELSE [IdleAdmin EXCEPT !.pc = "cloop", !.op = "contact", !.ids = ids,
                                         !.k = 1, !.result = "pending"]
    /\ UNCHANGED <<now, items, bids, bid_attempts, messages, outbox, proc, response, started, login_attempts, cache, verification_token_expires>>

\* Lines 1153-1165, one turn of the loop: the item is read; if it has a
\* winner who was not notified, the mail is sent when the winner wants
\* mails (send_winner_notification returns False when send_mail raises, and
\* the result is ignored) and the in-app Message is created.
contact_winners_item(mailOk) ==
    /\ admin.pc = "cloop"
    /\ admin.k <= Len(admin.ids)
    /\ LET it == items[admin.ids[admin.k]]
       IN IF ContactEligible(it)
            THEN /\ outbox' = IF it.winner \in WinEnabled
                                THEN Append(outbox,
                                       [kind |-> "winner", to |-> it.winner,
                                        item |-> admin.ids[admin.k],
                                        previous_bid |-> 0,
                                        new_bid |-> it.current_price, ok |-> mailOk])
                                ELSE outbox
                 /\ messages' = Append(messages, it.winner)
                 /\ admin' = [admin EXCEPT !.pc = "csave", !.snap = it]
            ELSE /\ admin' = [admin EXCEPT !.k = @ + 1]
                 /\ UNCHANGED <<outbox, messages>>
    /\ UNCHANGED <<now, items, bids, bid_attempts, proc, response, started, login_attempts, cache, verification_token_expires>>

\* Lines 1167-1170: winner_notified, winner_contacted, item.save(), contacted += 1
contact_winners_save ==
    /\ admin.pc = "csave"
    /\ LET mem == [admin.snap EXCEPT !.winner_notified = TRUE,
                                     !.winner_contacted = now]
       IN /\ items' = [items EXCEPT ![admin.ids[admin.k]] = SavedRow(@, mem)]
          /\ admin' = [admin EXCEPT !.pc = "cloop", !.k = @ + 1, !.snap = mem,
                                    !.contacted = @ + 1]
    /\ UNCHANGED <<now, bids, bid_attempts, messages, outbox, proc, response, started, login_attempts, cache, verification_token_expires>>

\* Line 1174: Response({"contacted": contacted})
contact_winners_done ==
    /\ admin.pc = "cloop"
    /\ admin.k > Len(admin.ids)
    /\ admin' = [IdleAdmin EXCEPT !.op = "contact", !.result = "Contacted",
                                  !.contacted = admin.contacted]
    /\ UNCHANGED <<now, items, bids, bid_attempts, messages, outbox, proc, response, started, login_attempts, cache, verification_token_expires>>

\* ------------------------------------------------------------ the cache
\* cache.get(key): the value while the entry has not expired, else None
CacheLive(key) == now < cache[key].expires
cache_get(key) == IF CacheLive(key) THEN cache[key].value ELSE None

\* cache.set(key, value, timeout)
cache_set(key, value, timeout) ==
    [cache EXCEPT ![key] = [value |-> value, expires |-> now + timeout]]

\* ------------------------------------------------ check_login_rate_limit
\* LoginAttempt.objects.filter(email, ip_address, timestamp__gte = cutoff,
\* success = False).count()
FailedLogins(email, ip, cutoff) ==
    Cardinality({k \in 1..Len(login_attempts) :
                    /\ login_attempts[k].email = email
                    /\ login_attempts[k].ip_address = ip
                    /\ login_attempts[k].timestamp >= cutoff
                    /\ ~login_attempts[k].success})

\* Lines 105-113: the count the check uses, cached or freshly counted
LoginAttemptsCounted(email, ip) ==
    IF cache_get(LoginCacheKey(email, ip)) # None
      THEN cache_get(LoginCacheKey(email, ip))
      ELSE FailedLogins(email, ip, now - LOGIN_ATTEMPT_PERIOD)

\* Line 113: a freshly counted value is cached for one minute; a cached one
\* is left as it is (neither refreshed nor invalidated by new attempts)
CacheAfterLoginCheck(email, ip) ==
    IF cache_get(LoginCacheKey(email, ip)) # None
      THEN cache
      ELSE cache_set(LoginCacheKey(email, ip),
                     FailedLogins(email, ip, now - LOGIN_ATTEMPT_PERIOD),
                     LoginCacheTimeout)

\* Line 115: return attempts >= MAX_LOGIN_ATTEMPTS
check_login_rate_limit(email, ip) ==
    LoginAttemptsCounted(email, ip) >= MAX_LOGIN_ATTEMPTS

\* -------------------------------------------------- check_bid_rate_limit
\* Lines 118-134, the same scheme over BidAttempt: every row of the user in
\* the last BID_ATTEMPT_PERIOD seconds counts, successful or not (the rows
\* of the model are those of the one client address).  No handler calls it.
BidAttemptsInPeriod(u) ==
    Cardinality({k \in 1..Len(bid_attempts) :
                    /\ bid_attempts[k].user = u
                    /\ bid_attempts[k].timestamp >= now - BID_ATTEMPT_PERIOD})

BidAttemptsCounted(u, ip) ==
    IF cache_get(BidCacheKey(u, ip)) # None
      THEN cache_get(BidCacheKey(u, ip))
      ELSE BidAttemptsInPeriod(u)

CacheAfterBidCheck(u, ip) ==
    IF cache_get(BidCacheKey(u, ip)) # None
      THEN cache
      ELSE cache_set(BidCacheKey(u, ip), BidAttemptsInPeriod(u), BidCacheTimeout)

check_bid_rate_limit(u, ip) == BidAttemptsCounted(u, ip) >= MAX_BID_ATTEMPTS

\* ------------------------------------------------------------ login_view
\* LoginAttempt.objects.create(email, ip_address, success); timestamp is
\* the time of creation
LoginAttemptRow(email, ip, success) ==
    [email |-> email, ip_address |-> ip, success |-> success, timestamp |-> now]

\* Lines 273-282: three failed logins in the last 24 hours
captcha_required(email, ip) ==
    FailedLogins(email, ip, now - CaptchaPeriod) >= CaptchaThreshold

\* The answer of login_view and whether it records an attempt and with
\* which success; the checks in the order of the code.  verify_recaptcha
\* returns True at its first statement (line 90), so a captcha_response
\* that is present is always taken as valid.
LoginOutcome(email, ip, creds, captcha) ==
    IF creds = "invalid_form"
      THEN [result |-> "BadRequest", record |-> FALSE, success |-> FALSE]
    ELSE IF check_login_rate_limit(email, ip)
      THEN [result |-> "TooManyRequests", record |-> TRUE, success |-> FALSE]
    ELSE IF captcha_required(email, ip) /\ ~captcha
      THEN [result |-> "CaptchaRequired", record |-> FALSE, success |-> FALSE]
    ELSE IF creds = "no_user"
      THEN [result |-> "InvalidCredentials", record |-> TRUE, success |-> FALSE]
    ELSE IF creds = "unverified"
      THEN [result |-> "VerifyEmail", record |-> TRUE, success |-> FALSE]
    ELSE IF creds = "bad_password"
      THEN [result |-> "InvalidCredentials", record |-> TRUE, success |-> FALSE]
    ELSE [result |-> "LoggedIn", record |-> TRUE, success |-> TRUE]

\* Lines 137-173, send_verification_email: a new token that expires 24
\* hours from now is saved, then the mail is handed to send_mail
VerificationMail(email, mailOk) ==
    [kind |-> "verification", to |-> email, item |-> "none", previous_bid |-> 0,
     new_bid |-> 0, ok |-> mailOk]

send_verification_email(email, mailOk) ==
    /\ verification_token_expires' =
          [verification_token_expires EXCEPT ![email] = now + TokenLifetime]
    /\ outbox' = Append(outbox, VerificationMail(email, mailOk))

\* Line 316: user.verification_token_expires < timezone.now() (the token of
\* a registered account is never empty before it is verified)
TokenExpired(expires, t) == expires < t

\* Lines 246-364: one login request.  The form is validated first; the
\* rate check reads the cache and, on a miss, counts and caches; a limited
\* request records a failed LoginAttempt (line 264) and is answered 429.
login_view(email, ip, creds, captcha) ==
    /\ Len(login_attempts) < MaxLogins
    /\ LET out == LoginOutcome(email, ip, creds, captcha)
       IN /\ cache' = IF creds = "invalid_form"
                         THEN cache
                         ELSE CacheAfterLoginCheck(email, ip)
          /\ login_attempts' =
                IF out.record
                  THEN Append(login_attempts, LoginAttemptRow(email, ip, out.success))
                  ELSE login_attempts
          /\ response' = [NoResponse EXCEPT !.user = email, !.result = out.result]
          /\ IF out.result = "VerifyEmail" /\ TokenExpired(verification_token_expires[email], now)
               THEN \E mailOk \in BOOLEAN : send_verification_email(email, mailOk)
               ELSE UNCHANGED <<outbox, verification_token_expires>>
    /\ UNCHANGED <<now, items, bids, bid_attempts, messages, proc, admin, started>>

\* ------------------------------------------------- resend_verification
\* what a resend request carries: no email, or the email of an account
\* that does not exist, that is verified, that is not verified
ResendRequests == {"no_email", "no_user", "verified", "unverified"}

\* Lines 554-557: user.verification_token_expires and
\* user.verification_token_expires > timezone.now() - timedelta(hours=23)
ResendRefused(expires, t) == expires # NoTime /\ expires > t - ResendWindow

\* Lines 530-582: one resend request
resend_verification(email, account, mailOk) ==
    /\ IF account = "unverified" /\ ~ResendRefused(verification_token_expires[email], now)
         THEN /\ send_verification_email(email, mailOk)
              /\ response' = [NoResponse EXCEPT !.user = email,
                                                !.result = "VerificationSent"]
         ELSE /\ response' =
                    [NoResponse EXCEPT
                        !.user = email,
                        !.result = CASE account = "no_email" -> "EmailRequired"
                                     [] account = "no_user" -> "IfExistsSent"
                                     [] account = "verified" -> "AlreadyVerified"
                                     [] OTHER -> "PleaseWait"]
              /\ UNCHANGED <<outbox, verification_token_expires>>
    /\ UNCHANGED <<now, items, bids, bid_attempts, messages, proc, admin, started,
                   login_attempts, cache>>

\* ------------------------------------------------------- item management
\* ItemViewSet is a ModelViewSet (line 584): besides place_bid it has the
\* inherited update and destroy, open to every authenticated user (lines
\* 657-662) and written nowhere in the file.  What they do to an item that
\* has bids is decided by the serializer and by the on_delete of Bid.item,
\* which are outside views.py; the two actions below follow the lifecycle
\* the specification gives for items: an item is retired by is_active =
\* false, and is deleted only while it has no bids.

\* the item has bids: the delete is refused
DeleteRefused(i) == \E k \in 1..Len(bids) : bids[k].item = i

\* DELETE: get_object(), instance.delete(); 404 for a row that is gone
destroy(i) ==
    /\ items[i] # NoItem
    /\ items' = IF DeleteRefused(i) THEN items ELSE [items EXCEPT ![i] = NoItem]
    /\ UNCHANGED <<now, bids, bid_attempts, messages, outbox, proc, response, admin,
                   started, login_attempts, cache, verification_token_expires>>

\* PATCH is_active = false: the soft retirement of an item
retire(i) ==
    /\ items[i] # NoItem
    /\ items[i].is_active
    /\ items' = [items EXCEPT ![i].is_active = FALSE]
    /\ UNCHANGED <<now, bids, bid_attempts, messages, outbox, proc, response, admin,
                   started, login_attempts, cache, verification_token_expires>>

\* ------------------------------------------------------ specifications
RequestsStarted == started["alice"] + started["bob"]

\* the outcomes of a database write: it takes effect or it raises
DbOutcomes == BOOLEAN
\* a database that never fails
DbHealthy == {TRUE}

place_bid(u, amounts, cap, db) ==
    \/ \E i \in Items, raw \in amounts :
          RequestsStarted < cap /\ place_bid_validate(u, i, raw)
    \/ \E dbOk \in db : place_bid_create(u, dbOk)
    \/ \E dbOk \in db : place_bid_save(u, dbOk)
    \/ \E dbOk \in db : place_bid_attempt(u, dbOk)
    \/ \E mailOk \in BOOLEAN : place_bid_notify(u, mailOk)
    \/ \E dbOk \in db : place_bid_except(u, dbOk)

mark_winners ==
    \/ \E i \in Items, u \in Users : mark_winners_check(i, u)
    \/ mark_winners_save

contact_winners ==
    \/ \E ids \in ItemIdLists : contact_winners_start(ids)
    \/ \E mailOk \in BOOLEAN : contact_winners_item(mailOk)
    \/ contact_winners_save
    \/ contact_winners_done

\* Concurrent bidding: the requests of the users, interleaved, over a database
\* that never fails.
Next ==
    \/ Tick
    \/ \E u \in Users : place_bid(u, Amounts, MaxRequests, DbHealthy)

Spec == Init /\ [][Next]_vars

\* Concurrent bidding over a database whose writes may fail.
NextDb ==
    \/ Tick
    \/ \E u \in Users : place_bid(u, Amounts, MaxRequests, DbOutcomes)

SpecDb == Init /\ [][NextDb]_vars

\* a bid of the starting price plus the increment, and one that raises
WinAmounts == {Num(StartPrice + MinIncrement), NotANumber}

\* The winner operations of the administrator, with one bidder bidding, over
\* a database that never fails.
NextWin ==
    \/ Tick
    \/ place_bid("alice", WinAmounts, MaxRequests, DbHealthy)
    \/ mark_winners
    \/ contact_winners

SpecWin == Init /\ [][NextWin]_vars

\* One bidder sending request after request, all within BID_ATTEMPT_PERIOD,
\* over a database that never fails.
NextRate ==
    \/ Tick
    \/ place_bid("alice", Amounts, MAX_BID_ATTEMPTS + 1, DbHealthy)

SpecRate == Init /\ [][NextRate]_vars

\* The logins of one account from one address, with waits between them.
NextLogin ==
    \/ \E t \in Instants : Wait(t)
    \/ \E e \in Emails, ip \in IpAddresses, creds \in Credentials, captcha \in BOOLEAN :
          login_view(e, ip, creds, captcha)

SpecLogin == Init /\ [][NextLogin]_vars

\* the instants of the verification scenarios: registration, an hour after
\* it, the first instant at which ResendRefused lets a resend pass, and an
\* hour after that
VerifyInstants == {0, 60 * 60, TokenLifetime + ResendWindow,
                   TokenLifetime + ResendWindow + 60 * 60}

\* The verification mails of one account that is not verified: resend
\* requests and logins, with waits between them.
NextVerify ==
    \/ \E t \in VerifyInstants : Wait(t)
    \/ \E e \in Emails, account \in ResendRequests, mailOk \in BOOLEAN :
          resend_verification(e, account, mailOk)
    \/ \E e \in Emails, ip \in IpAddresses, captcha \in BOOLEAN :
          login_view(e, ip, "unverified", captcha)

SpecVerify == Init /\ [][NextVerify]_vars

\* Bidding, the winner operations and the management of the item together.
NextManage ==
    \/ Tick
    \/ place_bid("alice", WinAmounts, MaxRequests, DbHealthy)
    \/ mark_winners
    \/ contact_winners
    \/ \E i \in Items : destroy(i)
    \/ \E i \in Items : retire(i)

SpecManage == Init /\ [][NextManage]_vars

\* ------------------------------------------------------------ the claims
\* the request of u was accepted: its Bid row exists (and it is not yet answered)
HasBid(u) == proc[u].pc \in {"save", "attempt", "notify"}
\* the ids of the bids of item i
BidsOf(i) == {k \in 1..Len(bids) : bids[k].item = i}
\* some request is between creating its Bid and saving the price
Writing(i) == \E u \in Users : proc[u].item = i /\ proc[u].pc = "save"

\* C1: whenever an accepted bid writes the price of an item, the new
\* current_price is strictly greater than the one it replaces.
C1_PriceStrictlyIncreases ==
    [][\A u \in Users :
          proc[u].pc = "save" /\ proc'[u].pc = "attempt"
          => items'[proc[u].item].current_price > items[proc[u].item].current_price]_vars

\* C2: no two requests on the same item are both accepted after validating
\* against the same current_price; the second to enter is validated against
\* the price the first one wrote.
C2_OneOfTwoRacingBidsAccepted ==
    \A u, v \in Users :
        u # v /\ HasBid(u) /\ HasBid(v) /\ proc[u].item = proc[v].item
        => proc[u].snap.current_price # proc[v].snap.current_price

\* C3: an item with bids has its current_price equal to the largest amount
\* among its bids, and exactly one bid holds that amount (stated of the
\* states in which no request is between its Bid row and its price write).
C3_SingleLeader ==
    \A i \in Items :
        BidsOf(i) # {} /\ ~Writing(i)
        => /\ \A k \in BidsOf(i) : bids[k].amount <= items[i].current_price
           /\ Cardinality({k \in BidsOf(i) : bids[k].amount = items[i].current_price}) = 1

\* C4: a place_bid received at a time now >= end_date, on an active item,
\* is answered "Ended" whatever the amount, the instant now = end_date
\* included (an inactive item is answered "NotActive", the check before).
C4_NoLateBids ==
    [][\A u \in Users, i \in Items, raw \in Amounts :
          place_bid_validate(u, i, raw) /\ items[i].is_active /\ now >= items[i].end_date
          => /\ proc'[u].pc = "idle"
             /\ response' = [NoResponse EXCEPT !.user = u, !.item = i,
                                               !.result = "Ended"]]_vars

\* C5: on an active item whose auction has not ended, a numeric amount a is
\* answered TooLow when a <= current_price, BelowIncrement when
\* current_price < a < current_price + $1.00 (so for current_price + $0.50),
\* and is accepted when a >= current_price + $1.00, the boundary included;
\* current_price is the price the request reads.
C5_IncrementEnforced ==
    [][\A u \in Users, i \in Items, raw \in NumAmounts :
          place_bid_validate(u, i, raw) /\ items[i].is_active /\ now < items[i].end_date
          => LET cur == items[i].current_price
                 rejected(r) == /\ proc'[u].pc = "idle"
                                /\ response'.user = u
                                /\ response'.result = r
             IN /\ raw.val <= cur => rejected("TooLow")
                /\ cur < raw.val /\ raw.val < cur + MinIncrement
                     => rejected("BelowIncrement")
                /\ raw.val >= cur + MinIncrement => proc'[u].pc = "create"]_vars

\* C5, reached: a bid of current_price + $0.50 has been answered
\* BelowIncrement and a bid of exactly current_price + $1.00 has passed.
C5_Witness ==
    \E u \in Users :
        /\ response.result = "BelowIncrement"
        /\ proc[u].pc = "create"
        /\ proc[u].raw.val = proc[u].snap.current_price + MinIncrement

\* C6: a place_bid received when its user has already sent MAX_BID_ATTEMPTS
\* requests within BID_ATTEMPT_PERIOD is answered "RateLimited", also when it
\* carries a valid bid: no Bid is created and the price does not change.
C6_EleventhAttemptRateLimited ==
    [][\A u \in Users, i \in Items, raw \in Amounts :
          /\ place_bid_validate(u, i, raw)
          /\ started[u] >= MAX_BID_ATTEMPTS
          /\ now < BID_ATTEMPT_PERIOD
          /\ Validate(items[i], raw, now) = "Accept"
          => /\ proc'[u].pc = "idle"
             /\ response'.user = u
             /\ response'.result = "RateLimited"]_vars

\* C7: the step that sends the outbid mail answers 201 with the bid and
\* its amount as current_price and writes no table, whether send_mail
\* succeeds or raises; the Bid and the successful BidAttempt written before
\* it stay as they are.
C7_NotificationIsolated ==
    [][\A u \in Users :
          proc[u].pc = "notify" /\ proc'[u] # proc[u]
          => /\ proc'[u].pc = "idle"
             /\ response' = [user |-> u, item |-> proc[u].item, result |-> "Accepted",
                             price |-> proc[u].raw.val, bid |-> proc[u].bid]
             /\ UNCHANGED <<items, bids, bid_attempts>>
             /\ bids[proc[u].bid] = [item |-> proc[u].item, user |-> u,
                                     amount |-> proc[u].raw.val]
             /\ \E k \in 1..Len(bid_attempts) :
                   bid_attempts[k].user = u /\ bid_attempts[k].success]_vars

\* C7, reached: send_mail raised on the outbid mail of the bid that has
\* just been answered 201.
C7_Witness ==
    /\ response.result = "Accepted"
    /\ outbox # <<>>
    /\ LET m == outbox[Len(outbox)]
       IN /\ m.kind = "outbid"
          /\ ~m.ok
          /\ m.to # response.user
          /\ m.new_bid = response.price
          /\ bids[response.bid].amount = response.price

\* C8: place_bid reports the first failing check in the order NotActive,
\* Ended (now >= end_date), InvalidAmount (the amount is not a well-formed
\* positive number), TooLow, BelowIncrement, and accepts exactly when all
\* five pass.
C8_FirstFailingCheck ==
    [][\A u \in Users, i \in Items, raw \in Amounts :
          place_bid_validate(u, i, raw)
          => LET it == items[i]
                 expected ==
                     IF ~it.is_active THEN "NotActive"
                     ELSE IF now >= it.end_date THEN "Ended"
                     ELSE IF raw.kind # "num" \/ raw.val <= 0 THEN "InvalidAmount"
                     ELSE IF raw.val <= it.current_price THEN "TooLow"
                     ELSE IF raw.val < it.current_price + MinIncrement
                       THEN "BelowIncrement"
                     ELSE "Accept"
                 got == IF proc'[u].pc = "create" THEN "Accept"
                        ELSE IF proc'[u].pc = "except" THEN "Raise"
                        ELSE IF response'.result = "Required" THEN "InvalidAmount"
                        ELSE response'.result
             IN got = expected]_vars

\* C9: contact_winners skips an item whose winner_notified is true: no
\* mail, no Message, no change to the item, not counted; a call that finds
\* its items notified reports 0 contacted.
C9_ContactWinnersIdempotent ==
    [][/\ admin.pc = "cloop"
       /\ admin.k <= Len(admin.ids)
       /\ items[admin.ids[admin.k]].winner_notified
       /\ admin' # admin
       => /\ UNCHANGED <<items, messages, outbox>>
          /\ admin' = [admin EXCEPT !.k = @ + 1]]_vars

\* C9, reached: a second contact_winners on the item of a notified winner
\* has reported 0 contacted.
C9_Witness ==
    /\ admin.op = "contact"
    /\ admin.result = "Contacted"
    /\ admin.contacted = 0
    /\ items["knife"].winner # NoUser
    /\ items["knife"].winner_notified
    /\ Len(messages) = 1

\* C10: mark_winners on an item whose end_date is still ahead is answered
\* "Cannot assign winner to active auction" and writes nothing; the winner
\* of an item changes only at a time now >= end_date.
C10_WinnerOnlyAfterEnd ==
    [][/\ \A i \in Items, u \in Users :
             mark_winners_check(i, u) /\ now < items[i].end_date
             => admin'.pc = "idle" /\ admin'.result = "ActiveAuction"
       /\ \A i \in Items :
             items'[i].winner # items[i].winner => now >= items[i].end_date]_vars

\* C10, reached: mark_winners has been refused on the running auction.
C10_Witness ==
    /\ admin.op = "mark"
    /\ admin.result = "ActiveAuction"
    /\ now < items["knife"].end_date
    /\ items["knife"].winner = NoUser

\* the ids of the highest bids of item i
HighestBids(i) == {k \in BidsOf(i) : \A j \in BidsOf(i) : bids[j].amount <= bids[k].amount}
\* the requests that are accepted or have raised, and have not yet written
\* their BidAttempt
Unrecorded == {u \in Users : proc[u].pc \in {"create", "save", "attempt", "except"}}

\* C11: the winner of an item is the bidder of its highest bid; an item
\* without bids has no winner.
C11_WinnerIsHighestBidder ==
    \A i \in Items :
        items[i].winner # NoUser
        => \E k \in HighestBids(i) : bids[k].user = items[i].winner

\* C12: in every reachable state the current_price of an item is at least
\* its starting_price, whatever place_bid requests ran and however they
\* interleaved.
C12_PriceAtLeastStartingPrice ==
    \A i \in Items : items[i].current_price >= items[i].starting_price

\* C12, reached: two racing bids were both accepted and answered, and the
\* price that was saved last is the lower of the two, above the starting price.
C12_Witness ==
    /\ \A u \in Users : proc[u].pc = "idle"
    /\ \E k \in BidsOf("knife") : bids[k].amount > items["knife"].current_price
    /\ items["knife"].current_price > items["knife"].starting_price

\* C13: place_bid accepts no bid at a time before the start_date of the item.
C13_NoBidBeforeStart ==
    [][\A u \in Users, i \in Items, raw \in Amounts :
          place_bid_validate(u, i, raw) /\ now < items[i].start_date
          => proc'[u].pc # "create"]_vars

\* C14: every place_bid request writes exactly one BidAttempt: the table has
\* one row for each request started, less the requests that are still on
\* their way to writing theirs.
C14_OneAttemptPerRequest ==
    Len(bid_attempts) = RequestsStarted - Cardinality(Unrecorded)

\* the requests login_view takes as login attempts
LoginRequests == Credentials \ {"invalid_form"}

\* C15: a login attempt (its captcha_response present) is answered 429 when
\* five failed attempts of its email and address lie within the last
\* LOGIN_ATTEMPT_PERIOD seconds, whatever its credentials, and only then:
\* successful attempts do not count.
C15_LoginLimitEnforced ==
    [][\A e \in Emails, ip \in IpAddresses, creds \in LoginRequests :
          login_view(e, ip, creds, TRUE)
          => (response'.result = "TooManyRequests"
              <=> FailedLogins(e, ip, now - LOGIN_ATTEMPT_PERIOD) >= MAX_LOGIN_ATTEMPTS)]_vars

\* C16: the cached count lets at most one attempt beyond the limit pass: a
\* login attempt (its captcha_response present) made when more than
\* MAX_LOGIN_ATTEMPTS failed attempts lie within the window is answered 429.
C16_CacheLetsOneExtraPass ==
    [][\A e \in Emails, ip \in IpAddresses, creds \in LoginRequests :
          /\ login_view(e, ip, creds, TRUE)
          /\ FailedLogins(e, ip, now - LOGIN_ATTEMPT_PERIOD) > MAX_LOGIN_ATTEMPTS
          => response'.result = "TooManyRequests"]_vars

\* C17: a login request that the rate check denies creates no LoginAttempt.
C17_DenialRecordsNothing ==
    [][\A e \in Emails, ip \in IpAddresses, creds \in LoginRequests, captcha \in BOOLEAN :
          login_view(e, ip, creds, captcha) /\ response'.result = "TooManyRequests"
          => login_attempts' = login_attempts]_vars

\* C18: winner_notified is true only of an item whose winner notification
\* was delivered: a winner mail for the item was sent and did not fail.
C18_NotifiedOnlyAfterDelivery ==
    \A i \in Items :
        items[i].winner_notified
        => \E k \in 1..Len(outbox) : /\ outbox[k].kind = "winner"
                                     /\ outbox[k].item = i
                                     /\ outbox[k].ok

\* C19: the three writes of an accepted bid are one unit: when one of them
\* fails none is persisted, so a request that is answered with an error
\* leaves no Bid of its own in the ledger.
C19_AcceptanceAtomic ==
    [][\A u \in Users :
          proc[u].pc = "except" /\ proc'[u].pc = "idle"
          => proc[u].bid = 0 \/ proc[u].bid > Len(bids')]_vars

\* C20: the saves of mark_winners and contact_winners leave the
\* current_price of every item as it was.
C20_WinnerStepsKeepPrice ==
    [][mark_winners_save \/ contact_winners_save
       => \A i \in Items : items'[i].current_price = items[i].current_price]_vars

\* the request of u creates its Bid in this step
CreatesBid(u) == proc[u].pc = "create" /\ proc'[u].pc = "save"

Notifies(u) == proc[u].pc = "notify" /\ proc'[u].pc # "notify"
\* the ids of the bids placed on the item of u's request before u's Bid
BidsBefore(u) == {k \in BidsOf(proc[u].item) : k < proc[u].bid}

\* C22: an accepted bid makes at most one outbid notification attempt; the
\* mail goes to the bidder of the highest bid placed before this one on the
\* item, who is not the new bidder and has outbid notifications enabled,
\* and whose bid is strictly lower than the new one.
C22_OutbidOnlyToPreviousLeader ==
    [][\A u \in Users :
          Notifies(u)
          => \/ outbox' = outbox
             \/ /\ Len(outbox') = Len(outbox) + 1
                /\ SubSeq(outbox', 1, Len(outbox)) = outbox
                /\ LET m == outbox'[Len(outbox')]
                   IN /\ m.kind = "outbid"
                      /\ m.to # u
                      /\ m.to \in OutbidEnabled
                      /\ m.previous_bid < m.new_bid
                      /\ \E k \in BidsBefore(u) :
                            /\ bids[k].user = m.to
                            /\ bids[k].amount = m.previous_bid
                            /\ \A j \in BidsBefore(u) :
                                  bids[j].amount <= bids[k].amount]_vars

\* the next statement of the request of v can run
CanProceed(v) ==
    CASE proc[v].pc = "idle" ->
           RequestsStarted < MaxRequests
           => ENABLED (\E i \in Items, raw \in Amounts : place_bid_validate(v, i, raw))
      [] proc[v].pc = "create" -> ENABLED place_bid_create(v, TRUE)
      [] proc[v].pc = "save" -> ENABLED place_bid_save(v, TRUE)
      [] proc[v].pc = "attempt" -> ENABLED place_bid_attempt(v, TRUE)
      [] proc[v].pc = "notify" -> ENABLED (\E mailOk \in BOOLEAN : place_bid_notify(v, mailOk))
      [] OTHER -> ENABLED place_bid_except(v, TRUE)

\* C23: the outbid mail of a bid is sent only by the notification step of
\* its request, which is reached only after the Bid was created, the price
\* saved and the successful BidAttempt recorded, in this order; while a
\* request is at its notification step every other bidder's request can
\* take its next step.
C23_NotifyAfterCommit ==
    [][/\ outbox' # outbox => \E u \in Users : Notifies(u)
       /\ \A u \in Users :
             /\ proc'[u].pc = "notify" /\ proc[u].pc # "notify"
                => /\ proc[u].pc = "attempt"
                   /\ bid_attempts' = Append(bid_attempts,
                                         [user |-> u, success |-> TRUE, timestamp |-> now])
             /\ proc'[u].pc = "attempt" /\ proc[u].pc # "attempt"
                => /\ proc[u].pc = "save"
                   /\ items'[proc[u].item].current_price = proc[u].raw.val
                   /\ bids[proc[u].bid] = [item |-> proc[u].item, user |-> u,
                                           amount |-> proc[u].raw.val]
             /\ proc[u].pc = "notify" => \A v \in Users \ {u} : CanProceed(v)]_vars

\* C23, reached: alice's request is still at its notification step and
\* bob's request, which created its Bid after hers, has committed as well.
C23_Witness ==
    /\ proc["alice"].pc = "notify"
    /\ proc["bob"].pc = "notify"
    /\ proc["alice"].bid < proc["bob"].bid
    /\ Cardinality({k \in 1..Len(bid_attempts) : bid_attempts[k].success}) = 2

\* the requests the validation of place_bid rejects: the item is inactive,
\* the auction has ended, the amount is missing, malformed, not above the
\* price, or less than an increment above it
RejectedByValidation(it, raw, t) ==
    \/ ~it.is_active
    \/ it.end_date < t
    \/ raw.kind \in {"missing", "malformed"}
    \/ raw.kind = "num" /\ raw.val < it.current_price + MinIncrement

\* C25: a place_bid that validation rejects is answered at once with the
\* rejection; it creates no Bid, leaves every field of every item as it
\* was and sends no mail.
C25_RejectionWritesNothing ==
    [][\A u \in Users, i \in Items, raw \in Amounts :
          place_bid_validate(u, i, raw) /\ RejectedByValidation(items[i], raw, now)
          => /\ proc'[u].pc = "idle"
             /\ response'.user = u
             /\ response'.result \in {"NotActive", "Ended", "Required",
                                      "InvalidAmount", "TooLow", "BelowIncrement"}
             /\ UNCHANGED <<bids, items, outbox, messages>>]_vars

\* C25, reached: after an accepted bid, a bid of less than the increment
\* above the new price was rejected; the ledger holds the one Bid and the
\* price is that of the accepted bid.
C25_Witness ==
    /\ response.result = "BelowIncrement"
    /\ \A u \in Users : proc[u].pc = "idle"
    /\ Len(bids) = 1
    /\ items["knife"].current_price = bids[1].amount

\* C26: the answer of place_bid agrees with what it persisted: a request
\* that has appended its Bid and set current_price to its amount is not
\* handed to the error handler (which answers 400 and records a failed
\* BidAttempt) by any later statement of the handler.
C26_NoErrorAfterPriceUpdate ==
    [][\A u \in Users :
          /\ proc[u].pc \in {"attempt", "notify"}
          /\ proc[u].bid \in 1..Len(bids) /\ bids[proc[u].bid].user = u
          /\ items[proc[u].item].current_price = proc[u].raw.val
          => proc'[u].pc # "except"]_vars

\* C27: at no instant do both end tests pass for one item: place_bid does
\* not accept a bid on an item at an instant at which mark_winners assigns
\* it a winner, so no bid is accepted on an item that has a winner.
C27_NoBidAfterWinner ==
    [][\A u \in Users, i \in Items, raw \in Amounts :
          place_bid_validate(u, i, raw) /\ proc'[u].pc = "create"
          => /\ items[i].winner = NoUser
             /\ AuctionStillRunning(items[i], now)]_vars

\* C28: the save of place_bid leaves winner, winner_notified and
\* winner_contacted of every item as they are in the database, also when
\* the request read the item before mark_winners or contact_winners wrote
\* them.
C28_PlaceBidKeepsWinner ==
    [][\A u \in Users :
          proc[u].pc = "save" /\ proc'[u].pc # "save"
          => \A i \in Items :
                /\ items'[i].winner = items[i].winner
                /\ items'[i].winner_notified = items[i].winner_notified
                /\ items'[i].winner_contacted = items[i].winner_contacted]_vars

\* C29: an item whose winner_notified is true has a winner who was
\* contacted: a message to the user now recorded as its winner exists,
\* however mark_winners and contact_winners were called before.
C29_NotifiedWinnerWasContacted ==
    \A i \in Items :
        items[i].winner # NoUser /\ items[i].winner_notified
        => \E k \in 1..Len(messages) : messages[k] = items[i].winner

\* C24: a resend for an account that is not verified is refused while less
\* than one hour has passed since its last verification mail was sent (its
\* token expires 24 hours after that mail), and is let through from one
\* hour on.
C24_ResendOncePerHour ==
    [][\A e \in Emails, mailOk \in BOOLEAN :
          resend_verification(e, "unverified", mailOk)
          => LET sent == verification_token_expires[e] - TokenLifetime
             IN (response'.result = "PleaseWait") <=> (now - sent < 60 * 60)]_vars

====
